---- MODULE Spec2Model ----
(***************************************************************************)
(* Model of the backtest engine of backend/app/services/backtest_service.py *)
(* (PositionManager, RiskManager, TradingDecisionEngine, SlippageCalculator *)
(* and the bar loop of BacktestEngine._execute_backtest).                   *)
(*                                                                          *)
(* Spec is one call of run_backtest; SpecPM is a PositionManager called     *)
(* directly; SpecRuns is two calls of run_backtest side by side.            *)
(*                                                                          *)
(* Python floats are modelled on decimal grids: quantities in 1/QS, prices  *)
(* in 1/PS, money in 1/MS and ratios in 1/RS.  A product or quotient is     *)
(* computed exactly and then rounded to the grid of its result (toward zero *)
(* unless stated otherwise).  The 1e-9 tolerances of the code lie below the *)
(* resolution of the quantity grid, so "abs(x) < 1e-9" reads "x = 0".       *)
(***************************************************************************)
EXTENDS Integers, Sequences, FiniteSets, TLC

\* ------------------------------------------------------------------ grids
QS == 100
PS == 100
MS == 100
RS == 1000000

\* ------------------------------------------------------------------ bounds
MaxBars == 3

\* calls of execute_trade made on one PositionManager
MaxCalls == 3

\* bars of each of the runs that execute side by side
MaxRunBars == 2

\* ------------------------------------------------------------ arithmetic
Abs(x) == IF x < 0 THEN -x ELSE x

Sign(x) == IF x > 0 THEN 1 ELSE IF x < 0 THEN -1 ELSE 0

Max2(a, b) == IF a >= b THEN a ELSE b

Min2(a, b) == IF a <= b THEN a ELSE b

\* <<q, r>> with a*b = q*c + r and 0 <= r < c, for a, b >= 0 and c > 0,
\* computed by long multiplication in base 16 so that no intermediate value
\* exceeds 32*c (Python's floats do not overflow at these magnitudes).
RECURSIVE MulDivQR(_, _, _)
MulDivQR(a, b, c) ==
    IF b = 0 THEN <<0, 0>>
    ELSE IF a <= 2147483647 \div b THEN <<(a * b) \div c, (a * b) % c>>
    ELSE LET h == MulDivQR(a, b \div 16, c)
             d == b % 16
             r == 16 * h[2] + d * (a % c)
         IN <<16 * h[1] + d * (a \div c) + (r \div c), r % c>>

\* floor(a*b/c) for a, b >= 0, c > 0
MulDiv(a, b, c) == MulDivQR(a, b, c)[1]

\* ceil(a*b/c) for a, b >= 0, c > 0
CeilMulDiv(a, b, c) ==
    LET qr == MulDivQR(a, b, c) IN IF qr[2] = 0 THEN qr[1] ELSE qr[1] + 1

\* a*b/c rounded to the nearest integer, for a, b >= 0, c > 0
RoundMulDiv(a, b, c) ==
    LET qr == MulDivQR(a, b, c) IN IF 2 * qr[2] >= c THEN qr[1] + 1 ELSE qr[1]

\* a*b/c rounded toward zero, any signs of a and b, c > 0
SMulDiv(a, b, c) == Sign(a) * Sign(b) * MulDiv(Abs(a), Abs(b), c)

\* quantity x price as money: q/QS * p/PS in 1/MS
Value(q, p) == SMulDiv(q, p * MS, QS * PS)

\* ------------------------------------------------------------ parameters
\* merged_params of run_backtest: DEFAULT_BACKTEST_PARAMS overridden by the
\* caller's params.  Money in 1/MS, quantities in 1/QS, ratios in 1/RS.
ParamSets ==
    { \* the scenario of the specification: 100000 capital, 0.1% fee, no slippage
      [initial_capital |-> 100000 * MS, fee_rate |-> 1000, slippage |-> 0,
       min_trade_amount |-> 5000 * MS, min_trade_qty |-> 1,
       min_position_change |-> 50000, lot_size |-> 0, cooldown_bars |-> 0,
       stop_loss_pct |-> 150000, take_profit_pct |-> 250000,
       max_position |-> 1000000],
      \* no admission thresholds, 1% base slippage
      [initial_capital |-> 100000 * MS, fee_rate |-> 1000, slippage |-> 10000,
       min_trade_amount |-> 0, min_trade_qty |-> 0,
       min_position_change |-> 0, lot_size |-> 0, cooldown_bars |-> 0,
       stop_loss_pct |-> 150000, take_profit_pct |-> 250000,
       max_position |-> 1000000],
      \* cooldown of one bar, position-change threshold 0.4
      [initial_capital |-> 100000 * MS, fee_rate |-> 1000, slippage |-> 0,
       min_trade_amount |-> 5000 * MS, min_trade_qty |-> 1,
       min_position_change |-> 400000, lot_size |-> 0, cooldown_bars |-> 1,
       stop_loss_pct |-> 150000, take_profit_pct |-> 250000,
       max_position |-> 1000000],
      \* lot size 3, position cap 0.5, 0.2% base slippage
      [initial_capital |-> 100000 * MS, fee_rate |-> 2000, slippage |-> 2000,
       min_trade_amount |-> 1000 * MS, min_trade_qty |-> 5 * QS,
       min_position_change |-> 20000, lot_size |-> 3 * QS, cooldown_bars |-> 0,
       stop_loss_pct |-> 150000, take_profit_pct |-> 250000,
       max_position |-> 500000] }

\* ----------------------------------------------------------------- inputs
\* df rows after the numeric coercion of run_backtest (NaN filled with 0).
Row(dt, h, l, c) == [datetime |-> dt, high |-> h, low |-> l, close |-> c]

\* datetime of the bar at index i of the frame (strictly increasing)
BarDt(i) == 2 * i + 2

BarDts == {BarDt(k) : k \in 0..(MaxBars - 1)}

\* index of the bar that carries datetime dt
BarIndexOf(dt) == CHOOSE k \in 0..(MaxBars - 1) : BarDt(k) = dt

\* a datetime that no bar carries
StrayDt == BarDt(0) + 1

\* (high, low, close) of the bars the frame may hold, in 1/PS
BarShapes ==
    { <<100 * PS, 100 * PS, 100 * PS>>,
      <<130 * PS, 120 * PS, 126 * PS>>,
      << 90 * PS,  75 * PS,  80 * PS>>,
      <<0, 0, 0>> }

NoSignal == [datetime |-> 0, target_position |-> 0, signal_type |-> "none"]

StrategySignal(dt, target, type) ==
    [datetime |-> dt, target_position |-> target, signal_type |-> type]

TargetPositions == {500000, 1000000}

\* the dicts signals_dict can be after lines 712-725: at most one signal under
\* each datetime, NoSignal standing for an absent key
SignalDicts ==
    { d \in [BarDts \cup {StrayDt} ->
                {NoSignal} \cup {StrategySignal(t, x, "normal") :
                                   t \in BarDts \cup {StrayDt}, x \in TargetPositions}] :
        \A t \in DOMAIN d :
            /\ d[t] # NoSignal => d[t].datetime = t
            /\ (t = StrayDt /\ d[t] # NoSignal) => d[t].target_position = 1000000 }

\* ------------------------------------------------------------------ state
VARIABLES
    params,            \* merged_params
    df_empty,          \* df.empty of the frame handed to run_backtest
    signals_dict,      \* datetime -> StrategySignal
    pc,                \* "start", "loop", then "done", "empty" or "raised"
    i,                 \* index of the next bar
    prev_row,          \* previous row, <<>> for None
    cash, current_qty, avg_price, total_trades,   \* PositionManager
    last_trade_bar,    \* TradingDecisionEngine.last_trade_bar
    nav_list, trades, executed_signals,
    step,              \* what the last processed bar did
    result,            \* the dict run_backtest returned, <<>> before it returns
    effects,           \* what the run has done besides computing
    engines,           \* BacktestEngine objects of concurrent runs
    runs,              \* the concurrent runs
    update_calls       \* calls of TradingDecisionEngine.update_last_trade_bar

vars == <<params, df_empty, signals_dict, pc, i, prev_row, cash, current_qty,
          avg_price, total_trades, last_trade_bar, nav_list, trades,
          executed_signals, step, result, effects, engines, runs,
          update_calls>>

\* -------------------------------------------------------- PositionManager
get_nav(c, q, current_price) ==
    IF current_price <= 0 THEN c ELSE c + Value(q, current_price)

get_current_position_ratio(c, q, current_price) ==
    LET nav == get_nav(c, q, current_price)
    IN IF nav <= 0 THEN 0 ELSE SMulDiv(Value(q, current_price), RS, nav)

\* amount = abs(delta_qty * price)
Amount(delta_qty, price) == Abs(Value(delta_qty, price))

\* delta_qty * price * (1 + fee_rate), rounded up so that cash >= required_cash
\* is decided as over the reals
RequiredCash(delta_qty, price, fee_rate) ==
    CeilMulDiv(Amount(delta_qty, price), RS + fee_rate, RS)

can_afford_trade(c, q, delta_qty, price, fee_rate) ==
    IF delta_qty <= 0
    THEN Abs(delta_qty) <= q
    ELSE c >= RequiredCash(delta_qty, price, fee_rate)

None == <<>>

Some(x) == <<x>>

\* mutant of ExecuteBuy: the fee is not taken from cash
ExecuteBuyFeeNotCharged(c, q, avg, n, delta_qty, price, amount, fee) ==
    LET total_cost == Value(q, avg) + Value(delta_qty, price)
        new_qty == q + delta_qty
    IN [cash |-> c - amount,
        current_qty |-> new_qty,
        avg_price |-> IF new_qty > 0
                      THEN RoundMulDiv(total_cost, QS * PS, new_qty * MS)
                      ELSE 0,
        total_trades |-> n + 1,
        fee |-> fee, realized_pnl |-> None]

\* mutant of ExecuteBuy: the average cost becomes the price of the last buy
ExecuteBuyLastPrice(c, q, avg, n, delta_qty, price, amount, fee) ==
    [cash |-> c - (amount + fee),
     current_qty |-> q + delta_qty,
     avg_price |-> price,
     total_trades |-> n + 1,
     fee |-> fee, realized_pnl |-> None]

\* the buy branch of execute_trade; the average cost is the quotient rounded to
\* the nearest price of the grid, as float division rounds to nearest
ExecuteBuy(c, q, avg, n, delta_qty, price, amount, fee) ==
    LET total_cost == Value(q, avg) + Value(delta_qty, price)
        new_qty == q + delta_qty
    IN [cash |-> c - (amount + fee),
        current_qty |-> new_qty,
        avg_price |-> IF new_qty > 0
                      THEN RoundMulDiv(total_cost, QS * PS, new_qty * MS)
                      ELSE 0,
        total_trades |-> n + 1,
        fee |-> fee, realized_pnl |-> None]

\* mutant of ExecuteSell: a full close does not reset the average cost
ExecuteSellKeepsAvg(c, q, avg, n, delta_qty, price, amount, fee) ==
    LET new_qty == q + delta_qty
        pnl == Value(Abs(delta_qty), price - avg) - fee
    IN [cash |-> c + (amount - fee),
        current_qty |-> IF new_qty < 1 THEN 0 ELSE new_qty,
        avg_price |-> avg,
        total_trades |-> n + 1,
        fee |-> fee, realized_pnl |-> Some(pnl)]

\* mutant of ExecuteSell: realized_pnl is the price gain, the fee of the sell
\* left out
ExecuteSellPnlBeforeFee(c, q, avg, n, delta_qty, price, amount, fee) ==
    LET new_qty == q + delta_qty
        pnl == Value(Abs(delta_qty), price - avg)
    IN [cash |-> c + (amount - fee),
        current_qty |-> IF new_qty < 1 THEN 0 ELSE new_qty,
        avg_price |-> IF new_qty < 1 THEN 0 ELSE avg,
        total_trades |-> n + 1,
        fee |-> fee, realized_pnl |-> Some(pnl)]

\* mutant of ExecuteSell: only buys are counted in total_trades
ExecuteSellNotCounted(c, q, avg, n, delta_qty, price, amount, fee) ==
    LET new_qty == q + delta_qty
        pnl == Value(Abs(delta_qty), price - avg) - fee
    IN [cash |-> c + (amount - fee),
        current_qty |-> IF new_qty < 1 THEN 0 ELSE new_qty,
        avg_price |-> IF new_qty < 1 THEN 0 ELSE avg,
        total_trades |-> n,
        fee |-> fee, realized_pnl |-> Some(pnl)]

\* the sell branch of execute_trade
ExecuteSell(c, q, avg, n, delta_qty, price, amount, fee) ==
    LET new_qty == q + delta_qty
        pnl == Value(Abs(delta_qty), price - avg) - fee
    IN [cash |-> c + (amount - fee),
        current_qty |-> IF new_qty < 1 THEN 0 ELSE new_qty,
        avg_price |-> IF new_qty < 1 THEN 0 ELSE avg,
        total_trades |-> n + 1,
        fee |-> fee, realized_pnl |-> Some(pnl)]

\* mutant of execute_trade: a call with no quantity is counted as a trade
execute_trade_CountsNoOp(c, q, avg, n, delta_qty, price, fee_rate) ==
    IF Abs(delta_qty) < 1
    THEN [cash |-> c, current_qty |-> q, avg_price |-> avg, total_trades |-> n + 1,
          fee |-> 0, realized_pnl |-> None]
    ELSE LET amount == Amount(delta_qty, price)
             fee == MulDiv(amount, fee_rate, RS)
         IN IF delta_qty > 0
            THEN ExecuteBuy(c, q, avg, n, delta_qty, price, amount, fee)
            ELSE ExecuteSell(c, q, avg, n, delta_qty, price, amount, fee)

\* the position after execute_trade, with the returned (fee, realized_pnl)
execute_trade(c, q, avg, n, delta_qty, price, fee_rate) ==
    IF Abs(delta_qty) < 1
    THEN [cash |-> c, current_qty |-> q, avg_price |-> avg, total_trades |-> n,
          fee |-> 0, realized_pnl |-> None]
    ELSE LET amount == Amount(delta_qty, price)
             fee == MulDiv(amount, fee_rate, RS)
         IN IF delta_qty > 0
            THEN ExecuteBuy(c, q, avg, n, delta_qty, price, amount, fee)
            ELSE ExecuteSell(c, q, avg, n, delta_qty, price, amount, fee)

\* ------------------------------------------------------------ RiskManager
profit_pct(avg, current_price) == SMulDiv(current_price - avg, RS, avg)

\* current_price is never NaN: run_backtest fills NaN closes with 0
check_risk_override(p, q, avg, current_price, target_position) ==
    IF q <= 0 \/ avg <= 0
    THEN [is_override |-> FALSE, reason |-> "normal", target |-> target_position]
    ELSE IF profit_pct(avg, current_price) >= p.take_profit_pct
    THEN [is_override |-> TRUE, reason |-> "take_profit",
          target |-> target_position \div 2]
    ELSE IF profit_pct(avg, current_price) <= -p.stop_loss_pct
    THEN [is_override |-> TRUE, reason |-> "stop_loss", target |-> 0]
    ELSE IF target_position > p.max_position
    THEN [is_override |-> TRUE, reason |-> "max_position_limit",
          target |-> p.max_position]
    ELSE [is_override |-> FALSE, reason |-> "normal", target |-> target_position]

\* --------------------------------------------------- TradingDecisionEngine
\* mutant of should_trade: the cooldown window is one bar short
should_trade_ShortCooldown(p, ltb, target_position, current_position, nav, bar_index) ==
    LET position_change == Abs(target_position - current_position)
        target_value == SMulDiv(nav, target_position, RS)
        current_value == SMulDiv(nav, current_position, RS)
        trade_amount == Abs(target_value - current_value)
    IN IF position_change < p.min_position_change
       THEN [ok |-> FALSE, reason |-> "position_change_too_small"]
       ELSE IF (bar_index - ltb) < p.cooldown_bars
       THEN [ok |-> FALSE, reason |-> "cooldown_period"]
       ELSE IF trade_amount < p.min_trade_amount
       THEN [ok |-> FALSE, reason |-> "trade_amount_too_small"]
       ELSE [ok |-> TRUE, reason |-> "approved"]

\* mutant of should_trade: the cooldown is checked before the position change
should_trade_CooldownFirst(p, ltb, target_position, current_position, nav, bar_index) ==
    LET position_change == Abs(target_position - current_position)
        target_value == SMulDiv(nav, target_position, RS)
        current_value == SMulDiv(nav, current_position, RS)
        trade_amount == Abs(target_value - current_value)
    IN IF (bar_index - ltb) <= p.cooldown_bars
       THEN [ok |-> FALSE, reason |-> "cooldown_period"]
       ELSE IF position_change < p.min_position_change
       THEN [ok |-> FALSE, reason |-> "position_change_too_small"]
       ELSE IF trade_amount < p.min_trade_amount
       THEN [ok |-> FALSE, reason |-> "trade_amount_too_small"]
       ELSE [ok |-> TRUE, reason |-> "approved"]

should_trade(p, ltb, target_position, current_position, nav, bar_index) ==
    LET position_change == Abs(target_position - current_position)
        target_value == SMulDiv(nav, target_position, RS)
        current_value == SMulDiv(nav, current_position, RS)
        trade_amount == Abs(target_value - current_value)
    IN IF position_change < p.min_position_change
       THEN [ok |-> FALSE, reason |-> "position_change_too_small"]
       ELSE IF (bar_index - ltb) <= p.cooldown_bars
       THEN [ok |-> FALSE, reason |-> "cooldown_period"]
       ELSE IF trade_amount < p.min_trade_amount
       THEN [ok |-> FALSE, reason |-> "trade_amount_too_small"]
       ELSE [ok |-> TRUE, reason |-> "approved"]

\* mutant of calculate_trade_quantity: the quantity is rounded up to the next
\* multiple of lot_size
calculate_trade_quantity_RoundsLotsUp(p, target_position, q, current_price, nav) ==
    LET target_value == SMulDiv(nav, target_position, RS)
        target_qty == IF current_price > 0
                      THEN SMulDiv(target_value, QS * PS, current_price * MS)
                      ELSE 0
        delta_qty == target_qty - q
        lotted == IF p.lot_size > 0
                  THEN ((Abs(delta_qty) + p.lot_size - 1) \div p.lot_size)
                          * p.lot_size * Sign(delta_qty)
                  ELSE delta_qty
    IN IF p.min_trade_qty > 0 /\ Abs(lotted) < p.min_trade_qty THEN 0 ELSE lotted

\* mutant of calculate_trade_quantity: min_trade_qty is not applied
calculate_trade_quantity_IgnoresMinQty(p, target_position, q, current_price, nav) ==
    LET target_value == SMulDiv(nav, target_position, RS)
        target_qty == IF current_price > 0
                      THEN SMulDiv(target_value, QS * PS, current_price * MS)
                      ELSE 0
        delta_qty == target_qty - q
    IN IF p.lot_size > 0
       THEN (Abs(delta_qty) \div p.lot_size) * p.lot_size * Sign(delta_qty)
       ELSE delta_qty

calculate_trade_quantity(p, target_position, q, current_price, nav) ==
    LET target_value == SMulDiv(nav, target_position, RS)
        target_qty == IF current_price > 0
                      THEN SMulDiv(target_value, QS * PS, current_price * MS)
                      ELSE 0
        delta_qty == target_qty - q
        lotted == IF p.lot_size > 0
                  THEN (Abs(delta_qty) \div p.lot_size) * p.lot_size * Sign(delta_qty)
                  ELSE delta_qty
    IN IF p.min_trade_qty > 0 /\ Abs(lotted) < p.min_trade_qty THEN 0 ELSE lotted

\* ------------------------------------------------------ SlippageCalculator
true_range(row, prev) ==
    LET high_low == row.high - row.low
    IN IF prev # None
       THEN Max2(high_low, Max2(Abs(row.high - prev[1].close),
                                Abs(row.low - prev[1].close)))
       ELSE high_low

\* mutant of calculate_dynamic_slippage: the range of the bar itself instead
\* of the true range
calculate_dynamic_slippage_HighLowOnly(row, prev, base_slippage) ==
    LET price == row.close
    IN IF price > 0
       THEN base_slippage + SMulDiv(2 * base_slippage, row.high - row.low, price)
       ELSE base_slippage

calculate_dynamic_slippage(row, prev, base_slippage) ==
    LET price == row.close
    IN IF price > 0
       THEN base_slippage + SMulDiv(2 * base_slippage, true_range(row, prev), price)
       ELSE base_slippage

\* mutant of ExecPrice: the slippage moves the price in the trader's favour
ExecPriceInFavour(price, slippage, delta_qty) ==
    IF delta_qty > 0
    THEN price - SMulDiv(price, slippage, RS)
    ELSE price + SMulDiv(price, slippage, RS)

\* exec_price = price * (1 + slippage) for a buy, price * (1 - slippage) for a sell
ExecPrice(price, slippage, delta_qty) ==
    IF delta_qty > 0
    THEN price + SMulDiv(price, slippage, RS)
    ELSE price - SMulDiv(price, slippage, RS)

\* mutant of MaxQty: the fee is left out of the affordable quantity
MaxQtyWithoutFee(c, exec_price, fee_rate) ==
    MulDiv(c, QS * PS, exec_price * MS)

\* max_qty = cash / (exec_price * (1 + fee_rate)); the unit cost is rounded up
\* and the quotient down, so that max_qty never exceeds the real quotient
MaxQty(c, exec_price, fee_rate) ==
    MulDiv(c, QS * PS, CeilMulDiv(exec_price, RS + fee_rate, RS) * MS)

\* --------------------------------------------------------- BacktestEngine
\* mutant of TradeRecord: current_cash is the cash before the fee was paid
TradeRecordCashBeforeFee(rid, dt, delta_qty, trade_type, exec_price, fee, r, nav_after, dd, price) ==
    [run_id |-> rid,
     datetime |-> dt,
     side |-> IF delta_qty > 0 THEN "buy" ELSE "sell",
     trade_type |-> trade_type,
     price |-> exec_price,
     qty |-> delta_qty,
     amount |-> Amount(delta_qty, exec_price),
     fee |-> fee,
     avg_price |-> r.avg_price,
     nav |-> nav_after,
     drawdown |-> dd,
     current_qty |-> r.current_qty,
     current_avg_price |-> r.avg_price,
     realized_pnl |-> r.realized_pnl,
     close_price |-> price,
     current_cash |-> r.cash + fee]

TradeRecord(rid, dt, delta_qty, trade_type, exec_price, fee, r, nav_after, dd, price) ==
    [run_id |-> rid,
     datetime |-> dt,
     side |-> IF delta_qty > 0 THEN "buy" ELSE "sell",
     trade_type |-> trade_type,
     price |-> exec_price,
     qty |-> delta_qty,
     amount |-> Amount(delta_qty, exec_price),
     fee |-> fee,
     avg_price |-> r.avg_price,
     nav |-> nav_after,
     drawdown |-> dd,
     current_qty |-> r.current_qty,
     current_avg_price |-> r.avg_price,
     realized_pnl |-> r.realized_pnl,
     close_price |-> price,
     current_cash |-> r.cash]

SeqMax(s) == CHOOSE m \in {s[k] : k \in DOMAIN s} : \A k \in DOMAIN s : s[k] <= m

\* mutant of SignalAt: the latest signal at or before dt instead of the one
\* under dt itself
SignalAtOrBefore(d, dt) ==
    LET keys == {t \in DOMAIN d : t <= dt /\ d[t] # NoSignal}
    IN IF keys = {} THEN NoSignal
       ELSE d[CHOOSE t \in keys : \A u \in keys : u <= t]

\* current_signal = signals_dict.get(dt)
SignalAt(d, dt) == d[dt]

\* what one run works on: the parameters and signals, the components of its
\* engine (PositionManager, TradingDecisionEngine) and the locals of
\* _execute_backtest
RunState(p, d, idx, prev, c, q, avg, n, ltb, navs, trs, sigs) ==
    [params |-> p, signals_dict |-> d, i |-> idx, prev_row |-> prev,
     cash |-> c, current_qty |-> q, avg_price |-> avg, total_trades |-> n,
     last_trade_bar |-> ltb, nav_list |-> navs, trades |-> trs,
     executed_signals |-> sigs]

\* what one iteration of the bar loop computes for `row` in the run state s,
\* up to the funds check
BarOutcome(s, row) ==
    LET dt == row.datetime
        price == row.close
        nav == get_nav(s.cash, s.current_qty, price)
        current_signal == SignalAt(s.signals_dict, dt)
        current_position == get_current_position_ratio(s.cash, s.current_qty, price)
        risk == check_risk_override(s.params, s.current_qty, s.avg_price, price,
                                    current_signal.target_position)
        final_signal == IF risk.is_override
                        THEN StrategySignal(current_signal.datetime, risk.target,
                                            risk.reason)
                        ELSE current_signal
        decision == should_trade(s.params, s.last_trade_bar,
                                 final_signal.target_position, current_position,
                                 nav, s.i)
        sized_qty == calculate_trade_quantity(s.params, final_signal.target_position,
                                              s.current_qty, price, nav)
        slippage == calculate_dynamic_slippage(row, s.prev_row, s.params.slippage)
        exec_price == ExecPrice(price, slippage, sized_qty)
        affordable == can_afford_trade(s.cash, s.current_qty, sized_qty, exec_price,
                                       s.params.fee_rate)
        delta_qty == IF ~affordable /\ sized_qty > 0
                     THEN Min2(sized_qty, MaxQty(s.cash, exec_price, s.params.fee_rate))
                     ELSE sized_qty
        outcome == IF current_signal = NoSignal THEN "no_signal"
                   ELSE IF ~decision.ok THEN "rejected"
                   ELSE IF Abs(sized_qty) < 1 THEN "zero_qty"
                   ELSE IF ~affordable /\ sized_qty > 0 /\ delta_qty < 1
                        THEN "insufficient_funds"
                   ELSE "executed"
    IN [bar |-> s.i, datetime |-> dt, close |-> price, nav |-> nav,
        outcome |-> outcome,
        has_signal |-> (current_signal # NoSignal),
        current_position |-> current_position,
        pre_ltb |-> s.last_trade_bar,
        requested |-> current_signal.target_position,
        is_override |-> (current_signal # NoSignal /\ risk.is_override),
        final_signal |-> final_signal,
        reason |-> IF current_signal = NoSignal THEN "no_signal" ELSE decision.reason,
        sized_qty |-> sized_qty, affordable |-> affordable,
        slippage |-> slippage, exec_price |-> exec_price, delta_qty |-> delta_qty,
        pre_cash |-> s.cash, pre_qty |-> s.current_qty, pre_avg |-> s.avg_price,
        pre_trades |-> s.total_trades]

\* self.last_trade_bar after update_last_trade_bar(bar_index)
update_last_trade_bar(bar_index) == bar_index

\* how often the iteration whose outcome is o calls update_last_trade_bar: once,
\* right after execute_trade
UpdateLastTradeBarCalls(o) == IF o.outcome = "executed" THEN 1 ELSE 0

\* mutant of ApplyOutcome: update_last_trade_bar is called on every bar that
\* carries a signal, before the checks that may skip the trade
ApplyOutcomeUpdatesSkippedBar(s, row, rid, o) ==
    LET navs == Append(s.nav_list, o.nav)
        r == execute_trade(s.cash, s.current_qty, s.avg_price, s.total_trades,
                           o.delta_qty, o.exec_price, s.params.fee_rate)
        peak == SeqMax(navs)
        drawdown == IF peak > 0 THEN SMulDiv(o.nav - peak, RS, peak) ELSE 0
    IN IF o.outcome = "executed"
       THEN RunState(s.params, s.signals_dict, s.i + 1, Some(row),
                     r.cash, r.current_qty, r.avg_price, r.total_trades,
                     update_last_trade_bar(s.i), navs,
                     Append(s.trades,
                            TradeRecord(rid, o.datetime, o.delta_qty,
                                        o.final_signal.signal_type, o.exec_price,
                                        r.fee, r,
                                        get_nav(r.cash, r.current_qty, o.close),
                                        drawdown, o.close)),
                     Append(s.executed_signals, o.final_signal))
       ELSE RunState(s.params, s.signals_dict, s.i + 1, Some(row),
                     s.cash, s.current_qty, s.avg_price, s.total_trades,
                     IF o.has_signal THEN update_last_trade_bar(s.i)
                     ELSE s.last_trade_bar,
                     navs, s.trades, s.executed_signals)

\* the run state after the iteration on `row` whose outcome is o: the NAV
\* point appended at the top of the loop, and the trade when one is executed
ApplyOutcome(s, row, rid, o) ==
    LET navs == Append(s.nav_list, o.nav)
        r == execute_trade(s.cash, s.current_qty, s.avg_price, s.total_trades,
                           o.delta_qty, o.exec_price, s.params.fee_rate)
        peak == SeqMax(navs)
        drawdown == IF peak > 0 THEN SMulDiv(o.nav - peak, RS, peak) ELSE 0
    IN IF o.outcome = "executed"
       THEN RunState(s.params, s.signals_dict, s.i + 1, Some(row),
                     r.cash, r.current_qty, r.avg_price, r.total_trades,
                     update_last_trade_bar(s.i), navs,
                     Append(s.trades,
                            TradeRecord(rid, o.datetime, o.delta_qty,
                                        o.final_signal.signal_type, o.exec_price,
                                        r.fee, r,
                                        get_nav(r.cash, r.current_qty, o.close),
                                        drawdown, o.close)),
                     Append(s.executed_signals, o.final_signal))
       ELSE RunState(s.params, s.signals_dict, s.i + 1, Some(row),
                     s.cash, s.current_qty, s.avg_price, s.total_trades,
                     s.last_trade_bar, navs, s.trades, s.executed_signals)

\* ------------------------------------------------------- MetricsCalculator
RECURSIVE SeqSum(_)
SeqSum(s) == IF s = <<>> THEN 0 ELSE s[1] + SeqSum(Tail(s))

SetMin(S) == CHOOSE m \in S : \A x \in S : m <= x

\* (nav_series - rolling_max) / rolling_max
Drawdowns(navs) ==
    { LET rolling_max == SeqMax(SubSeq(navs, 1, k))
      IN SMulDiv(navs[k] - rolling_max, RS, rolling_max) : k \in DOMAIN navs }

\* two entries of nav_series.pct_change() are equal: nav[a+1]/nav[a] =
\* nav[b+1]/nav[b], compared exactly as nav[a+1]*nav[b] = nav[b+1]*nav[a]
SameReturn(navs, a, b) ==
    MulDivQR(navs[a + 1], navs[b], 10000000) = MulDivQR(navs[b + 1], navs[a], 10000000)

\* len(returns) > 1 and returns.std() > 0: the standard deviation is positive
\* when two returns differ, and NaN when a division by a zero NAV occurred
HasSharpe(navs) ==
    /\ Len(navs) > 2
    /\ \A k \in 1..(Len(navs) - 1) : navs[k] > 0
    /\ \E a, b \in 1..(Len(navs) - 1) : ~SameReturn(navs, a, b)

\* avg_win / avg_loss in 1/100 (a ratio of two means, which can be large),
\* -1 standing for float('inf')
ProfitFactor(wins, losses) ==
    LET sum_win == SeqSum(wins)
        sum_loss == Abs(SeqSum(losses))
    IN IF sum_loss > 0
       THEN MulDiv(sum_win * Len(losses), 100, sum_loss * Len(wins))
       ELSE -1

\* the metrics dict, as the function from its keys to their values; money in
\* 1/MS, ratios in 1/RS.  The value of sharpe needs a square root and is not
\* represented: the entry holds its formula.
calculate_performance_metrics(nav_list_, initial_capital, trades_) ==
    IF Len(nav_list_) < 2
    THEN [k \in {} |-> 0]
    ELSE LET final_capital == nav_list_[Len(nav_list_)]
             basic == [final_capital |-> final_capital,
                       final_return |-> MulDiv(final_capital, RS, initial_capital) - RS,
                       max_drawdown |-> SetMin(Drawdowns(nav_list_))]
             sharpe == IF HasSharpe(nav_list_)
                       THEN [sharpe |-> "sqrt(252) * mean / std"]
                       ELSE [k \in {} |-> 0]
             realized_pnls == SelectSeq([k \in DOMAIN trades_ |-> trades_[k].realized_pnl],
                                        LAMBDA x : x # None)
             pnls == [k \in DOMAIN realized_pnls |-> realized_pnls[k][1]]
             winning_trades == SelectSeq(pnls, LAMBDA x : x > 0)
             losing_trades == SelectSeq(pnls, LAMBDA x : x <= 0)
             counts == IF Len(trades_) > 0
                       THEN [trade_count |-> Len(trades_),
                             total_fee |-> SeqSum([k \in DOMAIN trades_ |-> trades_[k].fee])]
                       ELSE [k \in {} |-> 0]
             profit == IF Len(pnls) > 0
                       THEN [total_profit |-> SeqSum(pnls),
                             win_rate |-> MulDiv(Len(winning_trades), RS, Len(pnls))]
                       ELSE [k \in {} |-> 0]
             factor == IF Len(winning_trades) > 0 /\ Len(pnls) > Len(winning_trades)
                       THEN [profit_factor |-> ProfitFactor(winning_trades, losing_trades)]
                       ELSE [k \in {} |-> 0]
         IN basic @@ sharpe @@ counts @@ profit @@ factor

\* ------------------------------------------------------------- run_backtest
\* the uuid4 of the run of this specification
RunId == 1

\* before the first bar
StartStep ==
    [bar |-> -1, datetime |-> 0, close |-> 0, nav |-> 0, outcome |-> "start",
     has_signal |-> FALSE, current_position |-> 0, pre_ltb |-> -9999,
     requested |-> 0, is_override |-> FALSE, final_signal |-> NoSignal,
     reason |-> "start", sized_qty |-> 0, affordable |-> TRUE, slippage |-> 0,
     exec_price |-> 0, delta_qty |-> 0, pre_cash |-> 0, pre_qty |-> 0,
     pre_avg |-> 0, pre_trades |-> 0]

\* signals_dict before the strategy has run
NoSignals == [t \in BarDts \cup {StrayDt} |-> NoSignal]

\* the run state held in the variables
Cur ==
    RunState(params, signals_dict, i, prev_row, cash, current_qty, avg_price,
             total_trades, last_trade_bar, nav_list, trades, executed_signals)

\* the state when run_backtest is entered; the components hold what
\* _initialize_components will give them
Init ==
    /\ params \in ParamSets
    /\ df_empty \in BOOLEAN
    /\ signals_dict = NoSignals
    /\ pc = "start"
    /\ i = 0
    /\ prev_row = None
    /\ cash = params.initial_capital
    /\ current_qty = 0
    /\ avg_price = 0
    /\ total_trades = 0
    /\ last_trade_bar = -9999
    /\ nav_list = <<>>
    /\ trades = <<>>
    /\ executed_signals = <<>>
    /\ step = StartStep
    /\ result = None
    /\ effects = {}
    /\ engines = <<>>
    /\ runs = <<>>
    /\ update_calls = 0

\* if df.empty: return
EmptyFrameReturns(empty) == empty

\* run_backtest on an empty frame: the early return of line 592
ReturnEmptyFrame ==
    /\ pc = "start"
    /\ EmptyFrameReturns(df_empty)
    /\ pc' = "empty"
    /\ result' = [run_id |-> RunId, nav |-> <<>>, signals |-> <<>>,
                  metrics |-> [k \in {} |-> 0]]
    /\ UNCHANGED <<params, df_empty, signals_dict, i, prev_row, cash, current_qty,
                   avg_price, total_trades, last_trade_bar, nav_list, trades,
                   executed_signals, step, effects, engines, runs,
                   update_calls>>

\* run_backtest up to the loop: the components are initialized, the strategy
\* is loaded and run and returns its signals
RunStrategy ==
    /\ pc = "start"
    /\ ~EmptyFrameReturns(df_empty)
    /\ signals_dict' \in SignalDicts
    /\ effects' = effects \cup {"components_initialized", "strategy_loaded",
                                "strategy_run"}
    /\ pc' = "loop"
    /\ UNCHANGED <<params, df_empty, i, prev_row, cash, current_qty, avg_price,
                   total_trades, last_trade_bar, nav_list, trades,
                   executed_signals, step, result, engines, runs,
                   update_calls>>

\* the strategy cannot be loaded or its run raises: _run_strategy re-raises and
\* run_backtest does not catch
StrategyFails ==
    /\ pc = "start"
    /\ ~EmptyFrameReturns(df_empty)
    /\ effects' = effects \cup {"components_initialized"}
    /\ pc' = "raised"
    /\ UNCHANGED <<params, df_empty, signals_dict, i, prev_row, cash, current_qty,
                   avg_price, total_trades, last_trade_bar, nav_list, trades,
                   executed_signals, step, result, engines, runs,
                   update_calls>>

\* one iteration of the main loop of _execute_backtest on the next row of the
\* frame; o is what the iteration computes up to the funds check
ProcessBar ==
    /\ pc = "loop"
    /\ ~df_empty
    /\ i < MaxBars
    /\ \E shape \in BarShapes :
         \E o \in {BarOutcome(Cur, Row(BarDt(i), shape[1], shape[2], shape[3]))} :
           \E n \in {ApplyOutcome(Cur, Row(BarDt(i), shape[1], shape[2], shape[3]),
                                  RunId, o)} :
            /\ step' = o
            /\ nav_list' = n.nav_list
            /\ prev_row' = n.prev_row
            /\ i' = n.i
            /\ cash' = n.cash
            /\ current_qty' = n.current_qty
            /\ avg_price' = n.avg_price
            /\ total_trades' = n.total_trades
            /\ last_trade_bar' = n.last_trade_bar
            /\ trades' = n.trades
            /\ executed_signals' = n.executed_signals
            /\ update_calls' = update_calls + UpdateLastTradeBarCalls(o)
    /\ UNCHANGED <<params, df_empty, signals_dict, pc, result, effects, engines, runs>>

\* the rows of the frame are exhausted
FrameExhausted == IF df_empty THEN i = 0 ELSE i >= 1

\* formatted_signals: one dict per executed signal, from the trade at the same
\* index
FormattedSignals(sigs, trs) ==
    [k \in DOMAIN sigs |->
        [datetime |-> sigs[k].datetime,
         side |-> IF k <= Len(trs) /\ trs[k].side = "buy" THEN "buy" ELSE "sell",
         price |-> IF k <= Len(trs) THEN trs[k].price ELSE 0,
         qty |-> IF k <= Len(trs) THEN Abs(trs[k].qty) ELSE 0]]

\* the dict _execute_backtest returns
CompletedResult(rid, p, navs, trs, sigs) ==
    [run_id |-> rid, params |-> p, nav |-> navs,
     metrics |-> calculate_performance_metrics(navs, p.initial_capital, trs),
     signals |-> FormattedSignals(sigs, trs)]

\* the loop ends: the metrics are computed, the results are saved and the
\* result dict is returned
Finish ==
    /\ pc = "loop"
    /\ FrameExhausted
    /\ pc' = "done"
    /\ effects' = effects \cup {"results_saved"}
    /\ result' = CompletedResult(RunId, params, nav_list, trades, executed_signals)
    /\ UNCHANGED <<params, df_empty, signals_dict, i, prev_row, cash, current_qty,
                   avg_price, total_trades, last_trade_bar, nav_list, trades,
                   executed_signals, step, engines, runs,
                   update_calls>>

\* the loop ends and save_backtest_results raises: the exception leaves
\* run_backtest
SaveFails ==
    /\ pc = "loop"
    /\ FrameExhausted
    /\ pc' = "raised"
    /\ UNCHANGED <<params, df_empty, signals_dict, i, prev_row, cash, current_qty,
                   avg_price, total_trades, last_trade_bar, nav_list, trades,
                   executed_signals, step, result, effects, engines, runs,
                   update_calls>>

Next ==
    \/ ReturnEmptyFrame
    \/ RunStrategy
    \/ StrategyFails
    \/ ProcessBar
    \/ Finish
    \/ SaveFails

Spec == Init /\ [][Next]_vars

\* ------------------------------------- PositionManager, called on its own
\* delta_qty of the calls, in 1/QS
CallQtys == {0, 100 * QS, 250 * QS + 50, -100 * QS, -350 * QS - 50}

\* price of the calls, in 1/PS
CallPrices == {100 * PS, 126 * PS, 80 * PS + 50}

\* a PositionManager(initial_capital) nobody has called yet
InitPM ==
    /\ params \in ParamSets
    /\ df_empty = FALSE
    /\ signals_dict = NoSignals
    /\ pc = "position_manager"
    /\ i = 0
    /\ prev_row = None
    /\ cash = params.initial_capital
    /\ current_qty = 0
    /\ avg_price = 0
    /\ total_trades = 0
    /\ last_trade_bar = -9999
    /\ nav_list = <<>>
    /\ trades = <<>>
    /\ executed_signals = <<>>
    /\ step = StartStep
    /\ result = None
    /\ effects = {}
    /\ engines = <<>>
    /\ runs = <<>>
    /\ update_calls = 0

\* a caller that has checked can_afford_trade calls execute_trade; i counts the
\* calls, step holds the call and what it returned, trades the trades made
ExecuteTradeCall ==
    /\ pc = "position_manager"
    /\ i < MaxCalls
    /\ \E delta_qty \in CallQtys, price \in CallPrices :
         /\ can_afford_trade(cash, current_qty, delta_qty, price, params.fee_rate)
         /\ \E r \in {execute_trade(cash, current_qty, avg_price, total_trades,
                                    delta_qty, price, params.fee_rate)} :
              /\ cash' = r.cash
              /\ current_qty' = r.current_qty
              /\ avg_price' = r.avg_price
              /\ total_trades' = r.total_trades
              /\ step' = [outcome |-> "call", delta_qty |-> delta_qty,
                          exec_price |-> price, fee |-> r.fee,
                          realized_pnl |-> r.realized_pnl,
                          pre_cash |-> cash, pre_qty |-> current_qty,
                          pre_avg |-> avg_price, pre_trades |-> total_trades]
              /\ trades' = IF r.total_trades > total_trades
                           THEN Append(trades,
                                    TradeRecord(RunId, i, delta_qty, "normal", price,
                                                r.fee, r,
                                                get_nav(r.cash, r.current_qty, price),
                                                0, price))
                           ELSE trades
    /\ i' = i + 1
    /\ UNCHANGED <<params, df_empty, signals_dict, pc, prev_row, last_trade_bar,
                   nav_list, executed_signals, result, effects, engines, runs,
                   update_calls>>

NextPM == ExecuteTradeCall

SpecPM == InitPM /\ [][NextPM]_vars

\* ------------------------------------------------ several runs of run_backtest
\* the runs, named by their run_id
RunIds == {1, 2}

\* the BacktestEngine objects
EngineIds == {1, 2}

\* the parameters, signals and bars of the runs
RunParamSets == {p \in ParamSets : p.cooldown_bars = 0 /\ p.lot_size = 0}

RunSignalDicts ==
    {d \in SignalDicts :
        /\ d[StrayDt] = NoSignal
        /\ \A t \in BarDts : d[t] # NoSignal
        /\ \A t, u \in BarDts : d[t].target_position = d[u].target_position}

RunBarShapes == {sh \in BarShapes : sh[3] \in {100 * PS, 80 * PS}}

\* BacktestEngine.__init__: no component yet
NewBacktestEngine ==
    [initialized |-> FALSE, cash |-> 0, current_qty |-> 0, avg_price |-> 0,
     total_trades |-> 0, last_trade_bar |-> -9999]

\* mutant of initialize_components: components that exist are kept
initialize_components_KeepsExisting(self, p) ==
    IF self.initialized
    THEN self
    ELSE [initialized |-> TRUE, cash |-> p.initial_capital, current_qty |-> 0,
          avg_price |-> 0, total_trades |-> 0, last_trade_bar |-> -9999]

\* _initialize_components: a new PositionManager and a new
\* TradingDecisionEngine, whatever the engine held
initialize_components(self, p) ==
    [initialized |-> TRUE, cash |-> p.initial_capital, current_qty |-> 0,
     avg_price |-> 0, total_trades |-> 0, last_trade_bar |-> -9999]

\* mutant of EngineOfCall: one engine object for all the calls
EngineSharedByCalls(r) == 1

\* engine = BacktestEngine() in the module-level run_backtest: an object of
\* its own for the call r
EngineOfCall(r) == r

\* a run that has not started
IdleRun ==
    [pc |-> "idle", entry |-> "none", engine |-> 0, params |-> None,
     signals_dict |-> NoSignals, i |-> 0, prev_row |-> None, nav_list |-> <<>>,
     trades |-> <<>>, executed_signals |-> <<>>, bars |-> <<>>]

\* what run r works on: the components of its engine and its own locals
View(r) ==
    LET e == engines[runs[r].engine]
    IN RunState(runs[r].params, runs[r].signals_dict, runs[r].i, runs[r].prev_row,
                e.cash, e.current_qty, e.avg_price, e.total_trades,
                e.last_trade_bar, runs[r].nav_list, runs[r].trades,
                runs[r].executed_signals)

\* run r with the run state n, having consumed `row`
RunAfterBar(r, n, row) ==
    [runs[r] EXCEPT !.i = n.i, !.prev_row = n.prev_row, !.nav_list = n.nav_list,
                    !.trades = n.trades, !.executed_signals = n.executed_signals,
                    !.bars = Append(@, row)]

\* the components of the engine of a run whose state is n
EngineAfterBar(n) ==
    [initialized |-> TRUE, cash |-> n.cash, current_qty |-> n.current_qty,
     avg_price |-> n.avg_price, total_trades |-> n.total_trades,
     last_trade_bar |-> n.last_trade_bar]

InitRuns ==
    /\ params = None
    /\ df_empty = FALSE
    /\ signals_dict = NoSignals
    /\ pc = "runs"
    /\ i = 0
    /\ prev_row = None
    /\ cash = 0
    /\ current_qty = 0
    /\ avg_price = 0
    /\ total_trades = 0
    /\ last_trade_bar = -9999
    /\ nav_list = <<>>
    /\ trades = <<>>
    /\ executed_signals = <<>>
    /\ step = StartStep
    /\ result = None
    /\ effects = {}
    /\ engines = [e \in EngineIds |-> NewBacktestEngine]
    /\ runs = [r \in RunIds |-> IdleRun]
    /\ update_calls = 0

\* run r of engine e starts on a non-empty frame: the components are
\* initialized, the strategy returns its signals, the loop is about to begin
StartOn(r, e, entry) ==
    /\ runs[r].pc = "idle"
    /\ \E p \in RunParamSets, d \in RunSignalDicts :
         /\ engines' = [engines EXCEPT ![e] = initialize_components(@, p)]
         /\ runs' = [runs EXCEPT ![r] = [IdleRun EXCEPT !.pc = "loop",
                                                       !.entry = entry,
                                                       !.engine = e,
                                                       !.params = p,
                                                       !.signals_dict = d]]
    /\ UNCHANGED <<params, df_empty, signals_dict, pc, i, prev_row, cash,
                   current_qty, avg_price, total_trades, last_trade_bar, nav_list,
                   trades, executed_signals, step, result, effects,
                   update_calls>>

\* a call of the module-level run_backtest
StartRun(r) == StartOn(r, EngineOfCall(r), "run_backtest")

\* a call of BacktestEngine.run_backtest on an engine whose earlier run is over
StartRunOnUsedEngine(r) ==
    \E q \in RunIds :
        /\ runs[q].pc = "done"
        /\ StartOn(r, runs[q].engine, "engine.run_backtest")

\* one iteration of the loop of run r
RunBar(r) ==
    /\ runs[r].pc = "loop"
    /\ runs[r].i < MaxRunBars
    /\ \E shape \in RunBarShapes :
         \E row \in {Row(BarDt(runs[r].i), shape[1], shape[2], shape[3])} :
           \E o \in {BarOutcome(View(r), row)} :
             \E n \in {ApplyOutcome(View(r), row, r, o)} :
                /\ engines' = [engines EXCEPT ![runs[r].engine] = EngineAfterBar(n)]
                /\ runs' = [runs EXCEPT ![r] = RunAfterBar(r, n, row)]
    /\ UNCHANGED <<params, df_empty, signals_dict, pc, i, prev_row, cash,
                   current_qty, avg_price, total_trades, last_trade_bar, nav_list,
                   trades, executed_signals, step, result, effects,
                   update_calls>>

\* the frame of run r is exhausted and the run returns
RunFinish(r) ==
    /\ runs[r].pc = "loop"
    /\ runs[r].i >= 1
    /\ runs' = [runs EXCEPT ![r].pc = "done"]
    /\ UNCHANGED <<params, df_empty, signals_dict, pc, i, prev_row, cash,
                   current_qty, avg_price, total_trades, last_trade_bar, nav_list,
                   trades, executed_signals, step, result, effects, engines,
                   update_calls>>

NextRuns ==
    \E r \in RunIds :
        \/ StartRun(r)
        \/ StartRunOnUsedEngine(r)
        \/ RunBar(r)
        \/ RunFinish(r)

SpecRuns == InitRuns /\ [][NextRuns]_vars

\* the run state of a run that executes alone with parameters p and signals d
\* on the rows `rows`, under the run_id rid
RECURSIVE Alone(_, _, _, _)
Alone(p, d, rows, rid) ==
    IF rows = <<>>
    THEN RunState(p, d, 0, None, p.initial_capital, 0, 0, 0, -9999, <<>>, <<>>, <<>>)
    ELSE LET s == Alone(p, d, SubSeq(rows, 1, Len(rows) - 1), rid)
             row == rows[Len(rows)]
         IN ApplyOutcome(s, row, rid, BarOutcome(s, row))

\* ------------------------------ TradingDecisionEngine, called on its own
\* target_position and current_position of the calls, in 1/RS
CallTargets == {0, 500000, 1000000}

CallPositions == {0, 450000, 480000, 1000000}

\* nav of the calls, in 1/MS
CallNavs == {100000 * MS, 90000 * MS}

\* current_qty of the calls, in 1/QS
CallHeldQtys == {0, 490 * QS + 25, 496 * QS, 497 * QS + 50, 510 * QS, 1000 * QS}

\* current_price of the calls, in 1/PS
CallClosePrices == {0, 100 * PS, 126 * PS}

\* bar_index of the calls
CallBars == 0 .. (MaxBars - 1)

\* a TradingDecisionEngine(params) nobody has called yet
InitTDE ==
    /\ params \in ParamSets
    /\ df_empty = FALSE
    /\ signals_dict = NoSignals
    /\ pc = "decision_engine"
    /\ i = 0
    /\ prev_row = None
    /\ cash = params.initial_capital
    /\ current_qty = 0
    /\ avg_price = 0
    /\ total_trades = 0
    /\ last_trade_bar = -9999
    /\ nav_list = <<>>
    /\ trades = <<>>
    /\ executed_signals = <<>>
    /\ step = StartStep
    /\ result = None
    /\ effects = {}
    /\ engines = <<>>
    /\ runs = <<>>
    /\ update_calls = 0

\* should_trade is called; it reads self.last_trade_bar and assigns nothing;
\* step holds the call and what it returned
ShouldTradeCall ==
    /\ pc = "decision_engine"
    /\ \E target_position \in CallTargets, current_position \in CallPositions,
          nav \in CallNavs, bar_index \in CallBars :
         \E d \in {should_trade(params, last_trade_bar, target_position,
                                current_position, nav, bar_index)} :
            step' = [outcome |-> "should_trade",
                     target_position |-> target_position,
                     current_position |-> current_position, nav |-> nav,
                     bar_index |-> bar_index, pre_ltb |-> last_trade_bar,
                     ok |-> d.ok, reason |-> d.reason]
    /\ UNCHANGED <<params, df_empty, signals_dict, pc, i, prev_row, cash,
                   current_qty, avg_price, total_trades, last_trade_bar, nav_list,
                   trades, executed_signals, result, effects, engines, runs,
                   update_calls>>

\* calculate_trade_quantity is called; step holds the call and what it returned
CalculateTradeQuantityCall ==
    /\ pc = "decision_engine"
    /\ \E target_position \in CallTargets, q \in CallHeldQtys,
          current_price \in CallClosePrices, nav \in CallNavs :
         step' = [outcome |-> "calculate_trade_quantity",
                  target_position |-> target_position, current_qty |-> q,
                  current_price |-> current_price, nav |-> nav,
                  pre_ltb |-> last_trade_bar,
                  delta_qty |-> calculate_trade_quantity(params, target_position,
                                                         q, current_price, nav)]
    /\ UNCHANGED <<params, df_empty, signals_dict, pc, i, prev_row, cash,
                   current_qty, avg_price, total_trades, last_trade_bar, nav_list,
                   trades, executed_signals, result, effects, engines, runs,
                   update_calls>>

\* update_last_trade_bar is called
UpdateLastTradeBarCall ==
    /\ pc = "decision_engine"
    /\ \E bar_index \in CallBars :
         /\ last_trade_bar' = update_last_trade_bar(bar_index)
         /\ step' = [outcome |-> "update_last_trade_bar", bar_index |-> bar_index,
                     pre_ltb |-> last_trade_bar]
    /\ UNCHANGED <<params, df_empty, signals_dict, pc, i, prev_row, cash,
                   current_qty, avg_price, total_trades, nav_list, trades,
                   executed_signals, result, effects, engines, runs, update_calls>>

NextTDE ==
    \/ ShouldTradeCall
    \/ CalculateTradeQuantityCall
    \/ UpdateLastTradeBarCall

SpecTDE == InitTDE /\ [][NextTDE]_vars

\* ================================================================= claims
LastTrade == trades[Len(trades)]

\* stop-loss applies to the position held before the last bar at its close
StopLossApplies ==
    /\ step.has_signal
    /\ step.pre_qty > 0
    /\ step.pre_avg > 0
    /\ profit_pct(step.pre_avg, step.close) <= -params.stop_loss_pct

\* take-profit applies to the position held before the last bar at its close
TakeProfitApplies ==
    /\ step.has_signal
    /\ step.pre_qty > 0
    /\ step.pre_avg > 0
    /\ profit_pct(step.pre_avg, step.close) >= params.take_profit_pct

\* C1: on every bar where check_risk_override returns is_override = TRUE
\* (take_profit, stop_loss or max_position_limit), should_trade does not skip
\* the rebalance: it is rejected neither with position_change_too_small nor
\* with cooldown_period nor with trade_amount_too_small.
C1_RiskOverrideNeverRejected ==
    step.is_override => step.outcome # "rejected"

\* C2: after every bar and in every trade record, cash >= 0 and
\* current_qty >= 0 (all signals have target_position in [0,1] and every
\* fee_rate is in [0,1)).
C2_NoNegativeState ==
    /\ cash >= 0
    /\ current_qty >= 0
    /\ \A k \in DOMAIN trades :
         trades[k].current_cash >= 0 /\ trades[k].current_qty >= 0

\* a buy that failed the funds check was clamped to max_qty and executed,
\* spending all cash but less than the cost of one more quantity unit
C2_Witness ==
    /\ step.outcome = "executed"
    /\ ~step.affordable
    /\ step.delta_qty > 0
    /\ step.delta_qty < step.sized_qty
    /\ cash < 2 * step.exec_price

\* C3: for every bar, the NAV point recorded for the bar equals
\* cash + quantity x close of the position left after the bar has been fully
\* processed, a trade executed on that bar included.
C3_NavPointIsPostBarNav ==
    step.outcome # "start" =>
        nav_list[Len(nav_list)] = cash + Value(current_qty, step.close)

\* C4: on every bar that has a signal and on which current_qty > 0,
\* avg_price > 0 and the loss reaches stop_loss_pct (take-profit not firing),
\* a sell tagged stop_loss is executed on that bar and leaves a held quantity
\* smaller than lot_size (zero when lot_size is 0).
C4_StopLossLiquidates ==
    (StopLossApplies /\ ~TakeProfitApplies) =>
        /\ step.outcome = "executed"
        /\ LastTrade.datetime = step.datetime
        /\ LastTrade.trade_type = "stop_loss"
        /\ LastTrade.side = "sell"
        /\ IF params.lot_size > 0
           THEN current_qty < params.lot_size
           ELSE current_qty = 0

\* C5: after a trade executed at bar t, every non-risk signal at a bar i with
\* i - t <= cooldown_bars that passes the position-change threshold is rejected
\* with reason cooldown_period, so no two executed trades of which the later
\* is a non-risk trade are cooldown_bars or fewer bars apart.
C5_CooldownEnforced ==
    /\ ( /\ step.has_signal
         /\ ~step.is_override
         /\ step.bar - step.pre_ltb <= params.cooldown_bars
         /\ Abs(step.final_signal.target_position - step.current_position)
              >= params.min_position_change )
       => (step.outcome = "rejected" /\ step.reason = "cooldown_period")
    /\ \A a, b \in DOMAIN trades :
         (a < b /\ ~(trades[b].trade_type \in
                        {"take_profit", "stop_loss", "max_position_limit"}))
         => BarIndexOf(trades[b].datetime) - BarIndexOf(trades[a].datetime)
              > params.cooldown_bars

\* a non-risk signal inside the cooldown window of an executed trade was
\* rejected with cooldown_period
C5_Witness ==
    /\ params.cooldown_bars > 0
    /\ Len(trades) > 0
    /\ step.has_signal
    /\ ~step.is_override
    /\ step.bar - step.pre_ltb = params.cooldown_bars
    /\ step.reason = "cooldown_period"

\* C6: check_risk_override returns the outcome of the first matching rule in
\* the order take_profit, stop_loss, max_position_limit, normal; whenever
\* neither take-profit nor stop-loss applies and the requested target exceeds
\* max_position - also on an empty position - it returns
\* (true, max_position_limit, max_position).
C6_FirstMatchingRule ==
    step.has_signal =>
        LET r == check_risk_override(params, step.pre_qty, step.pre_avg,
                                     step.close, step.requested)
        IN IF TakeProfitApplies
           THEN r = [is_override |-> TRUE, reason |-> "take_profit",
                     target |-> step.requested \div 2]
           ELSE IF StopLossApplies
           THEN r = [is_override |-> TRUE, reason |-> "stop_loss", target |-> 0]
           ELSE IF step.requested > params.max_position
           THEN r = [is_override |-> TRUE, reason |-> "max_position_limit",
                     target |-> params.max_position]
           ELSE r = [is_override |-> FALSE, reason |-> "normal",
                     target |-> step.requested]

\* C7: after every execute_trade and after every bar, avg_price = 0 exactly
\* when current_qty = 0; a sell that leaves less than 1e-9 sets both to 0.
C7_AvgZeroIffFlat ==
    /\ (avg_price = 0) <=> (current_qty = 0)
    /\ \A k \in DOMAIN trades :
         (trades[k].avg_price = 0) <=> (trades[k].current_qty = 0)
    /\ (step.outcome = "executed" /\ step.delta_qty < 0
          /\ step.pre_qty + step.delta_qty < 1)
       => (current_qty = 0 /\ avg_price = 0)

\* a sell closed a position that had a positive average cost
C7_Witness ==
    /\ step.outcome = "executed"
    /\ step.delta_qty < 0
    /\ step.pre_qty + step.delta_qty < 1
    /\ step.pre_avg > 0
    /\ current_qty = 0
    /\ avg_price = 0

\* C8: the datetimes of the trade log are non-decreasing in log order, each is
\* the datetime of a processed bar, at most one trade is recorded per bar, and
\* every trade comes from the signal under its own bar's datetime, so a signal
\* under a datetime of no bar never produces a trade.
C8_TradeTimestamps ==
    /\ \A k \in 1..(Len(trades) - 1) : trades[k].datetime <= trades[k + 1].datetime
    /\ \A k \in DOMAIN trades :
         trades[k].datetime \in {BarDt(j) : j \in 0..(i - 1)}
    /\ \A a, b \in DOMAIN trades :
         a # b => trades[a].datetime # trades[b].datetime
    /\ Len(executed_signals) = Len(trades)
    /\ \A k \in DOMAIN trades :
         /\ executed_signals[k].datetime = trades[k].datetime
         /\ executed_signals[k].datetime # StrayDt

\* the run is over with a signal under a datetime of no bar and two trades
C8_Witness ==
    /\ pc = "done"
    /\ signals_dict[StrayDt] # NoSignal
    /\ Len(trades) >= 2
    /\ \E k \in 0..(i - 1) : signals_dict[BarDt(k)] = NoSignal

\* C9: on a bar whose close is <= 0, no trade is executed and cash, quantity
\* and average cost are left unchanged, while the NAV recorded for the bar
\* equals the current cash.
C9_NonPositiveCloseSkipsTrade ==
    (step.outcome # "start" /\ step.close <= 0) =>
        /\ step.outcome # "executed"
        /\ cash = step.pre_cash
        /\ current_qty = step.pre_qty
        /\ avg_price = step.pre_avg
        /\ nav_list[Len(nav_list)] = cash

\* the end-to-end scenario: one bar with close 100 and a signal of 0.5, capital
\* 100000, fee rate 0.001, no slippage, thresholds not above the trade size
C10_Scenario ==
    /\ i = 1
    /\ params.initial_capital = 100000 * MS
    /\ params.fee_rate = 1000
    /\ params.slippage = 0
    /\ params.lot_size = 0
    /\ params.min_trade_amount <= 50000 * MS
    /\ params.min_position_change <= 500000
    /\ params.min_trade_qty <= 500 * QS
    /\ step.close = 100 * PS
    /\ step.has_signal
    /\ step.requested = 500000

\* C10: the end-to-end scenario executes exactly one buy of 500 at execution
\* price 100 with fee 50, leaving cash 49950, quantity 500 and NAV 99950.
C10_EndToEnd ==
    C10_Scenario =>
        /\ Len(trades) = 1
        /\ LastTrade.side = "buy"
        /\ LastTrade.qty = 500 * QS
        /\ LastTrade.price = 100 * PS
        /\ LastTrade.fee = 50 * MS
        /\ LastTrade.current_cash = 49950 * MS
        /\ LastTrade.current_qty = 500 * QS
        /\ LastTrade.nav = 99950 * MS
        /\ cash = 49950 * MS
        /\ current_qty = 500 * QS
        /\ get_nav(cash, current_qty, step.close) = 99950 * MS

\* the scenario has run to the end of its single bar
C10_Witness ==
    C10_Scenario /\ pc = "done" /\ Len(trades) = 1 /\ cash = 49950 * MS

\* the sum of amount over the trades a..b of the log
RECURSIVE AmountSum(_, _)
AmountSum(a, b) == IF a > b THEN 0 ELSE trades[a].amount + AmountSum(a + 1, b)

\* what the grid can lose in n blends of a position of quantity q: half a
\* price unit on the average cost of each, and the truncation of the products
BlendTolerance(q, n) == n * (Value(q, 1) \div 2 + 3)

\* C11: after any sequence of execute_trade buys with no intervening sell,
\* starting from an empty position, avg_price x current_qty equals the sum of
\* price x quantity over those buys (up to the rounding of the grid), and the
\* quantity held is the sum of the quantities bought.
C11_AverageCost ==
    \A a, b \in DOMAIN trades :
        ( /\ a <= b
          /\ (a = 1 \/ trades[a - 1].current_qty = 0)
          /\ \A k \in a..b : trades[k].side = "buy" )
        => /\ Abs(Value(trades[b].current_qty, trades[b].avg_price) - AmountSum(a, b))
                <= BlendTolerance(trades[b].current_qty, b - a + 1)
           /\ trades[b].current_qty = SeqSum([k \in 1..(b - a + 1) |-> trades[a + k - 1].qty])

\* three buys in a row from an empty position, not all at the same price
C11_Witness ==
    /\ pc = "position_manager"
    /\ Len(trades) = 3
    /\ \A k \in DOMAIN trades : trades[k].side = "buy"
    /\ trades[1].price # trades[2].price
    /\ trades[3].current_qty = current_qty
    /\ avg_price # trades[3].price

\* C12: execute_trade called with |delta_qty| < 1e-9 returns (0.0, None) and
\* leaves cash, current_qty, avg_price and total_trades unchanged.
C12_NoOpCall ==
    (step.outcome = "call" /\ Abs(step.delta_qty) < 1) =>
        /\ step.fee = 0
        /\ step.realized_pnl = None
        /\ cash = step.pre_cash
        /\ current_qty = step.pre_qty
        /\ avg_price = step.pre_avg
        /\ total_trades = step.pre_trades

\* a call with delta_qty = 0 on a PositionManager that holds a position
C12_Witness ==
    /\ pc = "position_manager"
    /\ step.outcome = "call"
    /\ step.delta_qty = 0
    /\ step.pre_qty > 0
    /\ total_trades >= 1
    /\ current_qty = step.pre_qty

\* the sells of the trade log with trade_type T
SellsOfType(T) ==
    SelectSeq(trades, LAMBDA t : t.side = "sell" /\ t.trade_type = T)

\* C13: for every completed run with at least one bar, the metrics contain
\* final_return = nav[-1]/initial_capital - 1, where nav[-1] is cash +
\* quantity x last close of the position left after the last bar, a trade
\* executed on the last bar included.
C13_FinalReturn ==
    (pc = "done" /\ i >= 1) =>
        /\ "final_return" \in DOMAIN result.metrics
        /\ result.metrics.final_return =
             MulDiv(cash + Value(current_qty, step.close), RS,
                    params.initial_capital) - RS

\* C14: when a run fails part-way (the strategy raises, or saving the results
\* raises after the loop), run_backtest still returns a result, which carries
\* an explicit failure marker together with the NAV points and the trades
\* collected up to the failure.
C14_FailureYieldsMarkedResult ==
    pc = "raised" =>
        /\ DOMAIN result # {}
        /\ "failed" \in DOMAIN result
        /\ result.failed
        /\ result.nav = nav_list
        /\ result.trades = trades

\* C15: run_backtest on an empty bar sequence ends at once in an error outcome
\* (an exception, or a result that carries an error marker) that differs from
\* the outcome of a successful run, without loading or running the strategy,
\* executing a trade or saving a result.
C15_EmptyFrameIsAnError ==
    (df_empty /\ pc # "start") =>
        /\ effects = {}
        /\ trades = <<>>
        /\ total_trades = 0
        /\ nav_list = <<>>
        /\ \/ pc = "raised"
           \/ "error" \in DOMAIN result
           \/ "failed" \in DOMAIN result

\* a trade log without its run_id
WithoutRunId(trs) == [k \in DOMAIN trs |-> [trs[k] EXCEPT !.run_id = 0]]

\* C16: two runs of the simulation loop on the same bar sequence, the same
\* signal sequence and the same engine parameters produce identical trade logs
\* (apart from run_id) and identical NAV series.
C16_Deterministic ==
    \A r, q \in RunIds :
        ( /\ runs[r].pc # "idle"
          /\ runs[q].pc # "idle"
          /\ runs[r].params = runs[q].params
          /\ runs[r].signals_dict = runs[q].signals_dict
          /\ runs[r].bars = runs[q].bars )
        => /\ runs[r].nav_list = runs[q].nav_list
           /\ WithoutRunId(runs[r].trades) = WithoutRunId(runs[q].trades)

\* a run on an engine that an earlier run has used: both are over, had the same
\* inputs and have traded
C16_Witness ==
    /\ runs[1].pc = "done"
    /\ runs[2].pc = "done"
    /\ runs[1].engine = runs[2].engine
    /\ runs[1].params = runs[2].params
    /\ runs[1].signals_dict = runs[2].signals_dict
    /\ runs[1].bars = runs[2].bars
    /\ Len(runs[1].trades) >= 2
    /\ runs[1].trades[1].run_id # runs[2].trades[1].run_id

\* C17: runs started through the module-level run_backtest share no mutable
\* simulation state: under any interleaving of two runs, each run's cash,
\* quantity, average cost, last_trade_bar, trade log and NAV series are the
\* same as when that run executes alone.
C17_RunsIsolated ==
    (\A q \in RunIds : runs[q].entry \in {"none", "run_backtest"}) =>
        \A r \in RunIds :
            runs[r].pc # "idle" =>
                View(r) = Alone(runs[r].params, runs[r].signals_dict, runs[r].bars, r)

\* two runs started through run_backtest are both in their loops, each has
\* traded and they hold different positions
C17_Witness ==
    /\ \A r \in RunIds :
         /\ runs[r].entry = "run_backtest"
         /\ runs[r].pc = "loop"
         /\ Len(runs[r].trades) >= 1
    /\ runs[1].engine # runs[2].engine
    /\ engines[runs[1].engine].cash # engines[runs[2].engine].cash

\* (high, low) of the bars compared at one close, as offsets from the close in
\* whole price units
RangeOffsets == {<<0, 0>>, <<10, 0>>, <<5, 5>>, <<30, 30>>}

\* the rows with close c that the next bar may be
RowsAtClose(c) ==
    {Row(BarDt(i), c + ro[1] * PS, c - ro[2] * PS, c) : ro \in RangeOffsets}

\* the positive closes of the bars
PositiveCloses == {shape[3] : shape \in {sh \in BarShapes : sh[3] > 0}}

\* C18: for base_slippage > 0 and two bars with the same positive close and the
\* same previous bar, the bar with the larger true range gets a strictly
\* larger value from calculate_dynamic_slippage.
C18_SlippageMonotone ==
    (pc = "loop" /\ params.slippage > 0) =>
        \A c \in PositiveCloses : \A a, b \in RowsAtClose(c) :
            true_range(a, prev_row) > true_range(b, prev_row) =>
                calculate_dynamic_slippage(a, prev_row, params.slippage)
                  > calculate_dynamic_slippage(b, prev_row, params.slippage)

\* after a bar, with a positive base slippage: two candidate bars with the same
\* close and the same high - low have different true ranges because of the
\* previous close, and the one with the larger true range gets more slippage
C18_Witness ==
    /\ pc = "loop"
    /\ params.slippage > 0
    /\ prev_row # None
    /\ \E c \in PositiveCloses : \E a, b \in RowsAtClose(c) :
         /\ a.high - a.low = b.high - b.low
         /\ true_range(a, prev_row) > true_range(b, prev_row)
         /\ calculate_dynamic_slippage(a, prev_row, params.slippage)
              > calculate_dynamic_slippage(b, prev_row, params.slippage)

\* C19: the metrics report, for each trade_type separately and over sell
\* trades only, total_pnl = sum of realized_pnl, trade_count = number of those
\* sells, win_rate = (number with realized_pnl > 0)/trade_count and
\* avg_pnl = total_pnl/trade_count.
C19_PerTypeAttribution ==
    (pc = "done" /\ Len(nav_list) >= 2) =>
        \A T \in {trades[k].trade_type : k \in {j \in DOMAIN trades : trades[j].side = "sell"}} :
            LET sells == SellsOfType(T)
                pnls == [k \in DOMAIN sells |-> sells[k].realized_pnl[1]]
            IN /\ T \in DOMAIN result.metrics
               /\ result.metrics[T].total_pnl = SeqSum(pnls)
               /\ result.metrics[T].trade_count = Len(sells)
               /\ result.metrics[T].win_rate =
                    MulDiv(Len(SelectSeq(pnls, LAMBDA x : x > 0)), RS, Len(sells))
               /\ result.metrics[T].avg_pnl =
                    SMulDiv(SeqSum(pnls), 1, Len(sells))

\* C20: every call the loop makes to execute_trade uses a (delta_qty,
\* exec_price, fee_rate) for which can_afford_trade holds at that moment: a buy
\* that fails the check is clamped to cash/(exec_price*(1+fee_rate)) and skipped
\* when nothing is affordable, and no executed sell exceeds the held quantity.
C20_ExecutedTradesAffordable ==
    /\ step.outcome = "executed" =>
         /\ can_afford_trade(step.pre_cash, step.pre_qty, step.delta_qty,
                             step.exec_price, params.fee_rate)
         /\ LastTrade.qty = step.delta_qty
         /\ LastTrade.price = step.exec_price
         /\ step.delta_qty < 0 => Abs(step.delta_qty) <= step.pre_qty
         /\ (step.sized_qty > 0 /\ ~step.affordable) =>
              step.delta_qty = MaxQty(step.pre_cash, step.exec_price, params.fee_rate)
    /\ (step.outcome = "insufficient_funds") =>
         /\ MaxQty(step.pre_cash, step.exec_price, params.fee_rate) < 1
         /\ total_trades = step.pre_trades
         /\ cash = step.pre_cash

\* a sell of the whole of a position that a clamped buy had built
C20_Witness ==
    /\ step.outcome = "executed"
    /\ step.delta_qty < 0
    /\ Abs(step.delta_qty) = step.pre_qty
    /\ Len(trades) >= 2
    /\ trades[Len(trades) - 1].side = "buy"
    /\ trades[Len(trades) - 1].current_cash < 2 * trades[Len(trades) - 1].price

\* ---------------------------------------------------------------------- C21
\* the three conditions of should_trade on the call held in step
PositionChangeFails ==
    Abs(step.target_position - step.current_position) < params.min_position_change

CooldownFails == (step.bar_index - step.pre_ltb) <= params.cooldown_bars

TradeAmountFails ==
    Abs(SMulDiv(step.nav, step.target_position, RS)
          - SMulDiv(step.nav, step.current_position, RS)) < params.min_trade_amount

\* C21: should_trade checks the position change, then the cooldown, then the
\* trade amount, and answers with the reason of the first check that fails; it
\* approves only when all three pass, and it leaves last_trade_bar as it was
C21_ChecksInOrder ==
    (pc = "decision_engine" /\ step.outcome = "should_trade") =>
        /\ step.reason = IF PositionChangeFails THEN "position_change_too_small"
                         ELSE IF CooldownFails THEN "cooldown_period"
                         ELSE IF TradeAmountFails THEN "trade_amount_too_small"
                         ELSE "approved"
        /\ step.ok <=> (~PositionChangeFails /\ ~CooldownFails /\ ~TradeAmountFails)
        /\ step.ok <=> (step.reason = "approved")
        /\ last_trade_bar = step.pre_ltb

\* a call inside the cooldown whose position change is too small as well
C21_Witness ==
    /\ pc = "decision_engine"
    /\ step.outcome = "should_trade"
    /\ PositionChangeFails
    /\ CooldownFails
    /\ step.pre_ltb >= 0
    /\ step.reason = "position_change_too_small"
    /\ ~step.ok

\* ---------------------------------------------------------------------- C22
\* target_qty - current_qty of the call held in step
QtyGap ==
    (IF step.current_price > 0
     THEN SMulDiv(SMulDiv(step.nav, step.target_position, RS), QS * PS,
                  step.current_price * MS)
     ELSE 0) - step.current_qty

\* k is a quantity the engine may trade: a multiple of lot_size, not below
\* min_trade_qty
Tradable(k) ==
    /\ k >= Max2(params.min_trade_qty, 1)
    /\ params.lot_size > 0 => k % params.lot_size = 0

\* C22: calculate_trade_quantity returns, with the sign of target_qty -
\* current_qty, the largest multiple of lot_size that does not exceed the
\* distance (the distance itself when lot_size = 0), or 0 when that is below
\* min_trade_qty
C22_SizedQuantity ==
    (pc = "decision_engine" /\ step.outcome = "calculate_trade_quantity") =>
        LET gap == Abs(QtyGap)
            m == Abs(step.delta_qty)
        IN /\ m # 0 => /\ Sign(step.delta_qty) = Sign(QtyGap)
                       /\ Tradable(m)
                       /\ m <= gap
                       /\ gap - m < Max2(params.lot_size, 1)
           /\ m = 0 => \A k \in Max2(params.min_trade_qty, 1)
                                  .. Min2(gap, Max2(params.min_trade_qty, 1)
                                                 + params.lot_size) : ~Tradable(k)

\* a sell rounded down to whole lots
C22_Witness ==
    /\ pc = "decision_engine"
    /\ step.outcome = "calculate_trade_quantity"
    /\ params.lot_size > 0
    /\ step.delta_qty < 0
    /\ QtyGap < step.delta_qty

\* ---------------------------------------------------------------------- C23
\* C23: after every bar the trade log, PositionManager.total_trades and the
\* calls of update_last_trade_bar count the same trades, and last_trade_bar is
\* the index of the bar of the last trade record, -9999 while there is none
C23_TradeCounters ==
    (pc = "loop" /\ step.outcome # "start") =>
        /\ Len(trades) = total_trades
        /\ Len(trades) = update_calls
        /\ last_trade_bar = IF trades = <<>> THEN -9999
                            ELSE BarIndexOf(LastTrade.datetime)

\* a buy, a sell on the next bar and a bar without a trade after them
C23_Witness ==
    /\ pc = "loop"
    /\ step.outcome \notin {"start", "executed"}
    /\ Len(trades) = 2
    /\ LastTrade.side = "sell"
    /\ last_trade_bar = 1
    /\ update_calls = 2

\* ---------------------------------------------------------------------- C24
\* C24: a trade record is a buy exactly when its qty is positive and a sell
\* exactly when it is negative, carries a realized_pnl exactly when it is a
\* sell, and holds the position as the trade left it: current_qty,
\* current_cash and the average price of the PositionManager, and the nav
\* current_cash + current_qty * close_price
C24_RecordMatchesPosition ==
    /\ \A k \in DOMAIN trades :
         /\ trades[k].side = "buy" <=> trades[k].qty > 0
         /\ trades[k].side = "sell" <=> trades[k].qty < 0
         /\ trades[k].realized_pnl # None <=> trades[k].side = "sell"
         /\ trades[k].nav = trades[k].current_cash
                              + Value(trades[k].current_qty, trades[k].close_price)
    /\ (pc = "loop" /\ step.outcome = "executed") =>
         /\ LastTrade.current_qty = current_qty
         /\ LastTrade.current_cash = cash
         /\ LastTrade.avg_price = avg_price
         /\ LastTrade.current_avg_price = avg_price
         /\ LastTrade.qty = current_qty - step.pre_qty
         /\ LastTrade.close_price = step.close

\* a sell of a part of the position on a bar after the buy
C24_Witness ==
    /\ pc = "loop"
    /\ step.outcome = "executed"
    /\ Len(trades) >= 2
    /\ LastTrade.side = "sell"
    /\ LastTrade.realized_pnl # None
    /\ LastTrade.current_qty > 0
    /\ LastTrade.fee > 0

\* ---------------------------------------------------------------------- C25
\* C25: on a bar with high >= low and a base slippage >= 0, an executed trade
\* has a dynamic slippage of at least the base slippage, a buy executes at or
\* above the close and a sell at or below it, and the NAV at the bar's close
\* is not higher after the trade than before it
C25_SlippageAgainstTrader ==
    (pc = "loop" /\ step.outcome = "executed" /\ params.slippage >= 0) =>
        /\ step.slippage >= params.slippage
        /\ step.delta_qty > 0 => step.exec_price >= step.close
        /\ step.delta_qty < 0 => step.exec_price <= step.close
        /\ LastTrade.price = step.exec_price
        /\ get_nav(cash, current_qty, step.close) <= step.nav

\* a buy above the close and a sell below it, both with a slippage above the
\* base slippage
C25_Witness ==
    /\ pc = "loop"
    /\ step.outcome = "executed"
    /\ Len(trades) >= 2
    /\ step.slippage > params.slippage
    /\ step.delta_qty < 0
    /\ step.exec_price < step.close
    /\ trades[1].side = "buy"
    /\ trades[1].price > trades[1].close_price
    /\ get_nav(cash, current_qty, step.close) < step.nav

\* ---------------------------------------------------------------------- C26
\* C26: a bar that ends without an executed trade (no signal, a rejected
\* signal, a zero sized quantity or insufficient funds) leaves cash,
\* current_qty, avg_price, total_trades, last_trade_bar and the trade log as
\* they were
C26_SkippedBarKeepsPosition ==
    [][(pc = "loop" /\ i' = i + 1 /\ step'.outcome # "executed")
          => UNCHANGED <<cash, current_qty, avg_price, total_trades,
                         last_trade_bar, trades>>]_vars

\* a signal rejected while a position is held, on a bar after a trade
C26_Witness ==
    /\ pc = "loop"
    /\ step.outcome = "rejected"
    /\ step.has_signal
    /\ Len(trades) >= 1
    /\ current_qty > 0
    /\ current_qty = step.pre_qty
    /\ cash = step.pre_cash
    /\ last_trade_bar = step.pre_ltb
    /\ last_trade_bar < step.bar

\* ---------------------------------------------------------------------- C27
\* C27: with lot_size > 0 the quantity of every executed trade is a whole
\* number of lots and at least min_trade_qty in absolute value, a buy reduced
\* by the funds check included
C27_ExecutedQtyInLots ==
    (pc = "loop" /\ step.outcome = "executed" /\ params.lot_size > 0) =>
        /\ LastTrade.qty % params.lot_size = 0
        /\ Abs(LastTrade.qty) >= params.min_trade_qty

\* ---------------------------------------------------------------------- C28
\* C28: an executed trade of type take_profit or stop_loss is a sell; such an
\* override never increases the quantity held
C28_RiskTradesAreSells ==
    (pc = "loop" /\ step.outcome = "executed"
       /\ LastTrade.trade_type \in {"take_profit", "stop_loss"}) =>
        /\ LastTrade.side = "sell"
        /\ current_qty <= step.pre_qty

\* ---------------------------------------------------------------------- C29
\* C29: on every bar with a signal the target handed to
\* calculate_trade_quantity is at most max_position, on an empty position and
\* after a take-profit halving as well
C29_TargetWithinMaxPosition ==
    (pc = "loop" /\ step.has_signal /\ step.outcome \in {"zero_qty",
                                   "insufficient_funds", "executed"}) =>
        step.final_signal.target_position <= params.max_position

\* ---------------------------------------------------------------------- C30
\* the sum of realized_pnl over the sells among the first k trades of the log
RECURSIVE RealizedPnlSum(_)
RealizedPnlSum(k) ==
    IF k = 0 THEN 0
    ELSE RealizedPnlSum(k - 1)
           + (IF trades[k].side = "sell" THEN trades[k].realized_pnl[1] ELSE 0)

\* the sum of fee over the buys among the first k trades of the log
RECURSIVE BuyFeeSum(_)
BuyFeeSum(k) ==
    IF k = 0 THEN 0
    ELSE BuyFeeSum(k - 1) + (IF trades[k].side = "buy" THEN trades[k].fee ELSE 0)

\* C30: whenever the position is flat after trades that started from the
\* empty position with cash = initial_capital, the cash gained is the sum of
\* the realized_pnl of the sells minus the sum of the fees of the buys
\* (up to the rounding of the grid, as it is up to float rounding in the code)
C30_FlatCashIsRealizedPnl ==
    (pc = "loop" /\ trades # <<>> /\ current_qty = 0) =>
        Abs((cash - params.initial_capital)
              - (RealizedPnlSum(Len(trades)) - BuyFeeSum(Len(trades))))
            <= BlendTolerance(SeqMax([k \in DOMAIN trades |-> trades[k].current_qty]),
                              Len(trades))

\* two buys at different prices and a sell of the whole position
C30_Witness ==
    /\ pc = "loop"
    /\ Len(trades) = 3
    /\ current_qty = 0
    /\ trades[1].side = "buy"
    /\ trades[2].side = "buy"
    /\ trades[1].price # trades[2].price
    /\ trades[3].side = "sell"
    /\ trades[3].fee > 0
    /\ cash # params.initial_capital

====
